---------------------------- MODULE Spec2Model ----------------------------
(***************************************************************************)
(* A model of atomsci/ddm/utils/rdkit_easy.py: Butina clustering of         *)
(* fingerprints and of a data frame's molecules, descriptor calculation,   *)
(* and the rendering of a molecule as an HTML image tag.                    *)
(*                                                                         *)
(* Python indices are kept as they are (0-based); a Python list l is a TLA+ *)
(* sequence s with l[i] = s[i + 1].                                         *)
(***************************************************************************)
EXTENDS Integers, Sequences, FiniteSets, TLC

VARIABLES
    prog,       \* which entry point the state belongs to, and whether it has run
    fps,        \* cluster_fingerprints: the list of fingerprint bit vectors
    cutoff,     \* cluster_fingerprints / cluster_dataframe: the cutoff, <<num, den>>
    cs,         \* cluster_fingerprints: the returned tuple of tuples
    df,         \* the caller's data frame, changed in place
    ret,        \* what the last call returned
    args,       \* the arguments of a rendering call
    mol,        \* the molecule given to a rendering call
    fs,         \* the file system: the directories and the files
    raised,     \* the exception the last call raised, "" when it returned
    calls       \* the toolkit calls the last rendering made on mol, in order

vars == <<prog, fps, cutoff, cs, df, ret, args, mol, fs, raised, calls>>

-----------------------------------------------------------------------------
(* Bounds and input sets *)

\* The longest list of fingerprints given to cluster_fingerprints.
MaxN == 6

\* The fingerprints (sets of on-bits of the 1024-bit vector) the inputs are
\* drawn from.
FPS == {{}, {1}, {2}, {1, 2}, {2, 3}}

\* The cutoffs the inputs are drawn from, as exact fractions <<num, den>>.  All
\* are dyadic, so the float comparison dij <= distThresh of the library agrees
\* with the exact comparison below on every distance 1 - x/u that arises.
Cutoffs == {<<0, 1>>, <<1, 2>>, <<3, 4>>, <<1, 1>>}

-----------------------------------------------------------------------------
(* Helpers on sequences *)

Range(s) == {s[k] : k \in 1..Len(s)}

Min(S) == CHOOSE x \in S : \A y \in S : x <= y

\* sorted(S) for a set of integers.
RECURSIVE Ascending(_)
Ascending(S) == IF S = {} THEN <<>>
                ELSE LET m == Min(S) IN <<m>> \o Ascending(S \ {m})

-----------------------------------------------------------------------------
(* rdkit.DataStructs: Tanimoto similarity of two bit vectors, as a fraction. *)
(* Two vectors with no bit set have similarity 1.                           *)

TanimotoSimilarity(a, b) ==
    LET x == Cardinality(a \cap b)
        u == Cardinality(a \cup b)
    IN  IF u = 0 THEN <<1, 1>> ELSE <<x, u>>

\* DataStructs.BulkTanimotoSimilarity(fp, fpl): one similarity per element of fpl.
BulkTanimotoSimilarity(fp, fpl) ==
    [k \in 1..Len(fpl) |-> TanimotoSimilarity(fp, fpl[k])]

\* 1 - x on a fraction.
OneMinus(x) == <<x[2] - x[1], x[2]>>

\* d <= c on fractions with positive denominators.
FracLeq(d, c) == d[1] * c[2] <= c[1] * d[2]

-----------------------------------------------------------------------------
(* rdkit.ML.Cluster.Butina.ClusterData(data, nPts, distThresh,              *)
(* isDistData=True), reordering off.                                        *)

\* dmIdx when the loops "for i in range(nPts): for j in range(i)" reach (i, j).
dmIdx(i, j) == (i * (i - 1)) \div 2 + j

\* nbrLists: j is appended to nbrLists[i] and i to nbrLists[j] when
\* data[dmIdx] <= distThresh; the loop order leaves every list ascending.
\* The list of point i is element i + 1 of the sequence built here.
RECURSIVE nbrLists(_, _, _, _)
nbrLists(data, nPts, distThresh, upto) ==
    IF upto <= 0 THEN <<>>
    ELSE LET i == upto - 1 IN
         Append(nbrLists(data, nPts, distThresh, upto - 1),
            Ascending({j \in 0..(nPts - 1) :
                /\ j # i
                /\ LET hi == IF i > j THEN i ELSE j
                       lo == IF i > j THEN j ELSE i
                   IN  FracLeq(data[dmIdx(hi, lo) + 1], distThresh)}))

\* tLists = [(len(y), x) ...]; tLists.sort(reverse=True): more neighbours
\* first, and among equals the larger index first.
RECURSIVE tLists(_, _)
tLists(nbr, S) ==
    IF S = {} THEN <<>>
    ELSE LET top == CHOOSE x \in S : \A y \in S :
                        \/ Len(nbr[x + 1]) > Len(nbr[y + 1])
                        \/ Len(nbr[x + 1]) = Len(nbr[y + 1]) /\ x >= y
         IN  <<top>> \o tLists(nbr, S \ {top})

\* The while loop: the next unseen point of tLists becomes a centroid and
\* takes its unseen neighbours, in the order of its neighbour list.
RECURSIVE Sweep(_, _, _, _)
Sweep(order, nbr, seen, res) ==
    IF order = <<>> THEN res
    ELSE LET idx == Head(order) IN
         IF idx \in seen THEN Sweep(Tail(order), nbr, seen, res)
         ELSE LET taken == SelectSeq(nbr[idx + 1], LAMBDA b : b \notin seen)
              IN  Sweep(Tail(order), nbr, seen \cup Range(taken),
                        Append(res, <<idx>> \o taken))

ClusterData(data, nPts, distThresh) ==
    LET nbr == nbrLists(data, nPts, distThresh, nPts)
    IN  Sweep(tLists(nbr, 0..(nPts - 1)), nbr, {}, <<>>)

-----------------------------------------------------------------------------
(* cluster_fingerprints *)

\* Mutation of nfps: one short, as from an off-by-one in the count.
nfps_short(f) == Len(f) - 1

\* nfps = len(fps)
nfps(f) == Len(f)

\* Mutation of sims: the similarities to fps[:i] in reverse order, so that
\* the flattened list is no longer in the pair order ClusterData reads.
sims_reversed(f, i) ==
    LET s == BulkTanimotoSimilarity(f[i + 1], SubSeq(f, 1, i))
    IN  [k \in 1..Len(s) |-> s[Len(s) + 1 - k]]

\* sims = DataStructs.BulkTanimotoSimilarity(fps[i], fps[:i])
sims(f, i) == BulkTanimotoSimilarity(f[i + 1], SubSeq(f, 1, i))

\* Mutation of row: the similarities themselves, not 1 - x.
row_similarity(f, i) == sims(f, i)

\* [1-x for x in sims]
row(f, i) == LET s == sims(f, i) IN [k \in 1..Len(s) |-> OneMinus(s[k])]

\* Mutation of dists: each row put in front of the list, not at its end.
RECURSIVE dists_prepended(_, _)
dists_prepended(f, upto) ==
    IF upto < 1 THEN <<>> ELSE row(f, upto) \o dists_prepended(f, upto - 1)

\* dists after the iterations i = 1 .. upto of "for i in range(1, nfps)":
\* each row is put at the end (dists.extend).
RECURSIVE dists(_, _)
dists(f, upto) ==
    IF upto < 1 THEN <<>> ELSE dists(f, upto - 1) \o row(f, upto)

\* Mutation of cluster_fingerprints: the cutoff taken as a similarity
\* threshold, 1 - cutoff handed on as the distance threshold.
cluster_fingerprints_simcut(f, c) ==
    ClusterData(dists(f, nfps(f) - 1), nfps(f), OneMinus(c))

cluster_fingerprints(f, c) ==
    ClusterData(dists(f, nfps(f) - 1), nfps(f), c)

-----------------------------------------------------------------------------
(* pandas: a data frame is its column names, its row labels (df.index) and  *)
(* its rows, each a function from the column names to a cell.  Cells are    *)
(* integers: a molecule is named by a number, NaN is the number below.      *)
(* Row labels are unique.                                                   *)

\* The cell pandas fills in when an assignment enlarges the frame.
NaN == -1000

None == [kind |-> "None"]

EmptyFrame == [columns |-> <<>>, index |-> <<>>, rows |-> <<>>]

\* The position (1-based) of the row labelled label.
Pos(d, label) == CHOOSE p \in 1..Len(d.index) : d.index[p] = label

DfAddColumn(d, col) ==
    IF col \in Range(d.columns) THEN d
    ELSE [columns |-> Append(d.columns, col),
          index   |-> d.index,
          rows    |-> [p \in 1..Len(d.rows) |-> d.rows[p] @@ (col :> NaN)]]

DfAddRow(d, label) ==
    IF label \in Range(d.index) THEN d
    ELSE [columns |-> d.columns,
          index   |-> Append(d.index, label),
          rows    |-> Append(d.rows, [c \in Range(d.columns) |-> NaN])]

\* df.at[label, col]
DfAtGet(d, label, col) == d.rows[Pos(d, label)][col]

\* df.at[label, col] = v: a missing column or row label enlarges the frame.
DfAtSet(d, label, col, v) ==
    LET e == DfAddRow(DfAddColumn(d, col), label)
    IN  [e EXCEPT !.rows[Pos(e, label)][col] = v]

\* df[col] = v for a scalar v: the whole column, created if missing.
DfSetColumn(d, col, v) ==
    LET e == DfAddColumn(d, col)
    IN  [e EXCEPT !.rows = [p \in 1..Len(e.rows) |-> [e.rows[p] EXCEPT ![col] = v]]]

\* df.reset_index(): the labels become a first column, named "index" (or
\* "level_0" when "index" is taken), and the rows are labelled 0 .. n-1.
reset_index(d) ==
    LET nm == IF "index" \in Range(d.columns) THEN "level_0" ELSE "index"
    IN  [columns |-> <<nm>> \o d.columns,
         index   |-> [p \in 1..Len(d.index) |-> p - 1],
         rows    |-> [p \in 1..Len(d.rows) |-> d.rows[p] @@ (nm :> d.index[p])]]

\* df2[col] = values for an Index or list: by position, not by label.
DfSetColumnValues(d, col, values) ==
    LET e == DfAddColumn(d, col)
    IN  [e EXCEPT !.rows = [p \in 1..Len(e.rows) |->
                                [e.rows[p] EXCEPT ![col] = values[p]]]]

-----------------------------------------------------------------------------
(* The molecules of the model, their Morgan fingerprints and descriptors *)

\* Molecules: 1 methane, 2 ethane, 3 methanol, 4 methane again (another Mol
\* object of the same compound).
Mols == {1, 2, 3, 4}

\* AllChem.GetMorganFingerprintAsBitVect(mol, 2, 1024), as the set of on-bits.
GetMorganFingerprintAsBitVect(m) ==
    CASE m = 1 -> {1}
      [] m = 2 -> {1, 2}
      [] m = 3 -> {2, 3}
      [] OTHER -> {1}

\* descriptors = [x[0] for x in Descriptors._descList]: the names of the
\* library's fixed descriptor set, two of them here.
descriptors == <<"MolWt", "HeavyAtomCount">>

\* calculator.CalcDescriptors(mol): one value per descriptor name, in order.
CalcDescriptors(m) ==
    CASE m = 1 -> <<16, 1>>
      [] m = 2 -> <<30, 2>>
      [] m = 3 -> <<32, 2>>
      [] OTHER -> <<16, 1>>

-----------------------------------------------------------------------------
(* calculate_descriptors *)

\* for desc, d in list(zip(descriptors, cd)): df.at[i, desc] = d, for the
\* descriptors k .. last; target is the label written to.
RECURSIVE WriteDescriptors(_, _, _, _)
WriteDescriptors(d, target, cd, k) ==
    IF k > Len(descriptors) \/ k > Len(cd) THEN d
    ELSE WriteDescriptors(DfAtSet(d, target, descriptors[k], cd[k]), target, cd, k + 1)

\* Mutation of DescribeRows: the values written at the row's position
\* (enumerate(df.index)), not at its label.
RECURSIVE DescribeRowsByPosition(_, _, _, _)
DescribeRowsByPosition(d, labels, k, molecule_column) ==
    IF k > Len(labels) THEN d
    ELSE DescribeRowsByPosition(
            WriteDescriptors(d, k - 1,
                CalcDescriptors(DfAtGet(d, labels[k], molecule_column)), 1),
            labels, k + 1, molecule_column)

\* for i in df.index: cd = calculator.CalcDescriptors(df.at[i, molecule_column])
\* and the writes of row i, for the labels k .. last of df.index.
RECURSIVE DescribeRows(_, _, _, _)
DescribeRows(d, labels, k, molecule_column) ==
    IF k > Len(labels) THEN d
    ELSE DescribeRows(
            WriteDescriptors(d, labels[k],
                CalcDescriptors(DfAtGet(d, labels[k], molecule_column)), 1),
            labels, k + 1, molecule_column)

\* The frame after calculate_descriptors(df, molecule_column); the function
\* has no return statement.
calculate_descriptors(d, molecule_column) ==
    DescribeRows(d, d.index, 1, molecule_column)

-----------------------------------------------------------------------------
(* cluster_dataframe *)

\* Mutation of df_index: the position j itself used as the label.
df_index_positional(df2, j) == j

\* df_index = df2.at[j, 'df_index']
df_index(df2, j) == DfAtGet(df2, j, "df_index")

\* for j in c: df.at[df_index, cluster_column] = i, for the members m .. last
\* of cluster c, the i-th.
RECURSIVE LabelCluster(_, _, _, _, _, _)
LabelCluster(d, df2, c, i, m, cluster_column) ==
    IF m > Len(c) THEN d
    ELSE LabelCluster(DfAtSet(d, df_index(df2, c[m]), cluster_column, i),
                      df2, c, i, m + 1, cluster_column)

\* for i in range(len(clusters)), from cluster i on.
RECURSIVE LabelClusters(_, _, _, _, _)
LabelClusters(d, df2, clusters, i, cluster_column) ==
    IF i >= Len(clusters) THEN d
    ELSE LabelClusters(LabelCluster(d, df2, clusters[i + 1], i, 1, cluster_column),
                       df2, clusters, i + 1, cluster_column)

\* The frame after cluster_dataframe(df, molecule_column, cluster_column, cutoff).
cluster_dataframe(d, molecule_column, cluster_column, c) ==
    LET d1 == DfSetColumn(d, cluster_column, -1)
        df2 == DfSetColumnValues(reset_index(d1), "df_index", d1.index)
        mols == [p \in 1..Len(df2.rows) |-> df2.rows[p][molecule_column]]
        fingerprints == [p \in 1..Len(mols) |-> GetMorganFingerprintAsBitVect(mols[p])]
        clusters == cluster_fingerprints(fingerprints, c)
    IN  LabelClusters(d1, df2, clusters, 0, cluster_column)

-----------------------------------------------------------------------------
(* Strings of the rendering calls: a str is the sequence of its characters. *)

Uppers == <<"P", "N", "G", "S", "V", "B", "M">>
Lowers == <<"p", "n", "g", "s", "v", "b", "m">>

\* One character of str.lower().
LowerChar(ch) ==
    IF \E k \in 1..Len(Uppers) : Uppers[k] = ch
    THEN Lowers[CHOOSE k \in 1..Len(Uppers) : Uppers[k] = ch]
    ELSE ch

\* Mutation of lower: the type compared as given.
lower_identity(t) == t

\* type.lower()
lower(t) == [k \in 1..Len(t) |-> LowerChar(t[k])]

png == <<"p", "n", "g">>
svg == <<"s", "v", "g">>

-----------------------------------------------------------------------------
(* The toolkit's calls on a molecule.  A molecule is what the rendering     *)
(* depends on: whether its valence/property cache is stale, whether it can  *)
(* be kekulized, and whether it can be prepared for drawing at all.         *)

\* mol.GetAtomWithIdx(0).GetExplicitValence(): RuntimeError on a stale cache.
GetExplicitValence(m) == IF m.stale THEN "RuntimeError" ELSE ""

\* mol.UpdatePropertyCache(False)
UpdatePropertyCache(m) == [m EXCEPT !.stale = FALSE]

\* rdMolDraw2D.PrepareMolForDrawing(mol, kekulize): the exception raised, ""
\* when a drawable copy is returned.  A kekulization failure is a ValueError.
PrepareMolForDrawing(m, kekulize) ==
    IF m.stale THEN "RuntimeError"
    ELSE IF kekulize /\ ~m.kekulizable THEN "ValueError"
    ELSE IF ~m.drawable THEN "RuntimeError"
    ELSE ""

\* drawer.GetDrawingText() after DrawMolecule and FinishDrawing.
GetDrawingText(bonds) ==
    <<"<", "svg:", "svg", " ", "xmlns:svg", "=", "'http://www.w3.org/2000/svg'", ">",
      "<", "svg:", "path", " ", bonds, "/>", "</", "svg:", "svg", ">">>

\* svg.replace(old, new) for an old that is one token of the text.
Replace(text, old, new) ==
    LET hit(k) == text[k] = old
        RECURSIVE Go(_)
        Go(k) == IF k > Len(text) THEN <<>>
                 ELSE (IF hit(k) THEN new ELSE <<text[k]>>) \o Go(k + 1)
    IN  Go(1)

-----------------------------------------------------------------------------
(* mol_to_svg, mol_to_pil, save_svg, save_png *)

\* Mutation of check_valence: the RuntimeError swallowed, the cache left stale.
check_valence_ignored(m) ==
    [mol |-> m, calls |-> <<"GetExplicitValence">>]

\* try: mol.GetAtomWithIdx(0).GetExplicitValence()
\* except RuntimeError: mol.UpdatePropertyCache(False)
check_valence(m) ==
    IF GetExplicitValence(m) = "RuntimeError"
    THEN [mol |-> UpdatePropertyCache(m),
          calls |-> <<"GetExplicitValence", "UpdatePropertyCache">>]
    ELSE [mol |-> m, calls |-> <<"GetExplicitValence">>]

\* try: mc_mol = PrepareMolForDrawing(mol, kekulize=True)
\* except ValueError: mc_mol = PrepareMolForDrawing(mol, kekulize=False)
prepare(m) ==
    IF PrepareMolForDrawing(m, TRUE) = "ValueError"
    THEN [raised |-> PrepareMolForDrawing(m, FALSE),
          bonds  |-> "aromatic",
          calls  |-> <<"PrepareMolForDrawing(kekulize=True)",
                       "PrepareMolForDrawing(kekulize=False)">>]
    ELSE [raised |-> PrepareMolForDrawing(m, TRUE),
          bonds  |-> "kekulized",
          calls  |-> <<"PrepareMolForDrawing(kekulize=True)">>]

\* mol_to_svg(mol, size): the exception raised or the text returned, the
\* molecule as the call leaves it, and the toolkit calls made.
mol_to_svg(m, size) ==
    LET v == check_valence(m)
        q == prepare(v.mol)
        text == Replace(Replace(GetDrawingText(q.bonds), "svg:", <<>>),
                        "xmlns:svg", <<"xmlns">>)
    IN  [raised |-> q.raised,
         ret    |-> IF q.raised = "" THEN [kind |-> "str", text |-> text, size |-> size]
                    ELSE None,
         mol    |-> v.mol,
         calls  |-> v.calls \o q.calls]

\* mol_to_pil(mol, size): MolToImage(mol, size=(size[0], size[1]))
mol_to_pil(m, size) == [kind |-> "PIL", size |-> size]

\* open(name, 'w') / pil.save(name): the exception raised, "" when the file
\* can be written.  A path is <<directory, file name>>.
open_w(f, path) ==
    IF path[1] \notin f.dirs THEN "FileNotFoundError"
    ELSE IF path[2] = "" THEN "IsADirectoryError"
    ELSE ""

\* The file system with content written to path, replacing the file there.
write(f, path, content) ==
    [f EXCEPT !.files = {x \in @ : x.path # path} \cup {[path |-> path, content |-> content]}]

\* save_svg(mol, name, size)
save_svg(m, path, size, f) ==
    LET r == mol_to_svg(m, size)
        o == IF r.raised # "" THEN r.raised ELSE open_w(f, path)
    IN  [raised |-> o,
         ret    |-> None,
         mol    |-> r.mol,
         calls  |-> r.calls,
         fs     |-> IF o = "" THEN write(f, path, "svg") ELSE f]

\* save_png(mol, name, size)
save_png(m, path, size, f) ==
    LET o == open_w(f, path)
    IN  [raised |-> o,
         ret    |-> None,
         mol    |-> m,
         calls  |-> <<>>,
         fs     |-> IF o = "" THEN write(f, path, "png") ELSE f]

-----------------------------------------------------------------------------
(* mol_to_html *)

\* b64encode(...).decode() of an image's bytes
b64encode(img) == <<"base64", img>>

\* f"<img src='{src}' style='width:{width}px;'>"
img_tag(src, width) == [kind |-> "str", tag |-> "img", src |-> src, width |-> width]

\* os.makedirs(directory, exist_ok=True)
makedirs(f, directory) == [f EXCEPT !.dirs = @ \cup {directory}]

\* not (type.lower() not in ['png','svg'])
recognized(t) == lower(t) \in {png, svg}

\* mol_to_html(mol, name, type, directory, embed, width, height)
mol_to_html(m, a, f) ==
    LET size == <<a.width, a.height>>
        quiet == [raised |-> "", ret |-> None, mol |-> m, calls |-> <<>>, fs |-> f]
    IN
    IF ~recognized(a.type) THEN quiet
    ELSE IF a.embed THEN
        IF lower(a.type) = png
        THEN [quiet EXCEPT !.ret =
                img_tag([mime |-> "image/png",
                         data |-> b64encode(mol_to_pil(m, size))], a.width)]
        ELSE LET r == mol_to_svg(m, size) IN
             [raised |-> r.raised,
              ret    |-> IF r.raised # "" THEN None
                         ELSE img_tag([mime |-> "image/svg+xml",
                                       data |-> b64encode(r.ret)], a.width),
              mol    |-> r.mol,
              calls  |-> r.calls,
              fs     |-> f]
    ELSE
        LET img_file == <<a.directory, a.name>>
            g == makedirs(f, a.directory)
            w == IF lower(a.type) = png THEN save_png(m, img_file, size, g)
                 ELSE save_svg(m, img_file, size, g)
        IN  [w EXCEPT !.ret = IF w.raised # "" THEN None
                              ELSE img_tag([file |-> img_file], a.width)]

-----------------------------------------------------------------------------
(* Rendering calls *)

\* The variables of the rendering calls, where no rendering is made.
NoRendering ==
    /\ args = [type |-> svg, embed |-> FALSE, name |-> "", directory |-> "rdkit_svg",
               width |-> 400, height |-> 200]
    /\ mol = [stale |-> FALSE, kekulizable |-> TRUE, drawable |-> TRUE]
    /\ fs = [dirs |-> {}, files |-> {}]
    /\ raised = ""
    /\ calls = <<>>

\* Every spelling of w in upper and lower case.
CaseVariants(w) ==
    {[k \in 1..Len(w) |-> IF k \in S THEN Uppers[CHOOSE u \in 1..Len(Lowers) : Lowers[u] = w[k]]
                          ELSE w[k]] : S \in SUBSET (1..Len(w))}

\* The type strings given to mol_to_html.
Types ==
    CaseVariants(png) \cup CaseVariants(svg) \cup CaseVariants(<<"b", "m", "p">>)
    \cup {<<>>, <<"p", "n">>, <<"s", "v", "g", "s">>, <<".", "p", "n", "g">>, <<"p", "n", "g", " ">>}

Names == {"", "mol1"}
Directories == {"rdkit_svg"}
Sizes == {<<400, 200>>, <<100, 50>>}

InitRender ==
    /\ prog = "render"
    /\ args \in {[type |-> t, embed |-> e, name |-> n, directory |-> d,
                  width |-> z[1], height |-> z[2]] :
                    <<t, e, n, d, z>> \in Types \X BOOLEAN \X Names \X Directories \X Sizes}
    /\ mol \in [stale : BOOLEAN, kekulizable : BOOLEAN, drawable : BOOLEAN]
    /\ fs \in {[dirs |-> ds, files |-> {}] : ds \in SUBSET Directories}
    /\ raised = ""
    /\ calls = <<>>
    /\ ret = None
    /\ fps = <<>>
    /\ cutoff = <<0, 1>>
    /\ cs = <<>>
    /\ df = EmptyFrame

\* The state after a rendering call with outcome r.
Returned(r, name) ==
    /\ prog' = name
    /\ raised' = r.raised
    /\ ret' = r.ret
    /\ mol' = r.mol
    /\ calls' = r.calls
    /\ fs' = r.fs
    /\ UNCHANGED <<args, fps, cutoff, cs, df>>

CallMolToHtml ==
    /\ prog = "render"
    /\ Returned(mol_to_html(mol, args, fs), "mol_to_html returned")

CallMolToSvg ==
    /\ prog = "render"
    /\ LET r == mol_to_svg(mol, <<args.width, args.height>>)
       IN  Returned([raised |-> r.raised, ret |-> r.ret, mol |-> r.mol,
                     calls |-> r.calls, fs |-> fs], "mol_to_svg returned")

CallSaveSvg ==
    /\ prog = "render"
    /\ Returned(save_svg(mol, <<args.directory, args.name>>, <<args.width, args.height>>, fs),
                "save_svg returned")

CallSavePng ==
    /\ prog = "render"
    /\ Returned(save_png(mol, <<args.directory, args.name>>, <<args.width, args.height>>, fs),
                "save_png returned")

NextRender == CallMolToHtml \/ CallMolToSvg \/ CallSaveSvg \/ CallSavePng

SpecRender == InitRender /\ [][NextRender]_vars

-----------------------------------------------------------------------------
(* Clustering a list of fingerprints *)

InitCluster ==
    /\ prog = "cluster_fingerprints"
    /\ fps \in UNION {[1..n -> FPS] : n \in 0..MaxN}
    /\ cutoff = <<0, 1>>
    /\ cs = <<>>
    /\ df = EmptyFrame
    /\ ret = None
    /\ NoRendering

CallClusterFingerprints ==
    /\ prog = "cluster_fingerprints"
    /\ \E c \in Cutoffs :
        /\ cutoff' = c
        /\ cs' = cluster_fingerprints(fps, c)
    /\ prog' = "cluster_fingerprints returned"
    /\ ret' = [kind |-> "tuple"]
    /\ UNCHANGED <<fps, df, args, mol, fs, raised, calls>>

NextCluster == CallClusterFingerprints

SpecCluster == InitCluster /\ [][NextCluster]_vars

-----------------------------------------------------------------------------
(* Calls on a data frame *)

\* The most rows of a frame.
MaxRows == 3

\* The row labels frames are built from: any order, any subset.
Labels == {0, 1, 2, 5}

\* The columns a frame starts with: the molecule column, alone or with a
\* column of the caller's, a column left by an earlier clustering, or a column
\* that bears the name of a descriptor.
Layouts == {<<"mol">>, <<"id", "mol">>, <<"mol", "cluster">>, <<"MolWt", "mol">>}

\* The cell a starting frame holds in column col of row p with molecule m.
StartCell(col, p, m) ==
    CASE col = "mol" -> m
      [] col = "id" -> 100 + p
      [] col = "cluster" -> 7
      [] OTHER -> 0

Injective(s) == \A a, b \in DOMAIN s : s[a] = s[b] => a = b

StartFrames ==
    {[columns |-> cols,
      index   |-> idx,
      rows    |-> [p \in 1..Len(idx) |-> [c \in Range(cols) |-> StartCell(c, p, ms[p])]]] :
        <<cols, idx, ms>> \in
            UNION {Layouts \X {s \in [1..n -> Labels] : Injective(s)} \X [1..n -> Mols] :
                   n \in 0..MaxRows}}

InitFrame ==
    /\ prog = "frame"
    /\ df \in StartFrames
    /\ fps = <<>>
    /\ cutoff = <<0, 1>>
    /\ cs = <<>>
    /\ ret = None
    /\ NoRendering

CallCalculateDescriptors ==
    /\ prog = "frame"
    /\ df' = calculate_descriptors(df, "mol")
    /\ ret' = None
    /\ prog' = "calculate_descriptors returned"
    /\ UNCHANGED <<fps, cutoff, cs, args, mol, fs, raised, calls>>

CallClusterDataframe ==
    /\ prog = "frame"
    /\ \E c \in Cutoffs :
        /\ cutoff' = c
        /\ df' = cluster_dataframe(df, "mol", "cluster", c)
    /\ ret' = None
    /\ prog' = "cluster_dataframe returned"
    /\ UNCHANGED <<fps, cs, args, mol, fs, raised, calls>>

NextFrame == CallCalculateDescriptors \/ CallClusterDataframe

SpecFrame == InitFrame /\ [][NextFrame]_vars

-----------------------------------------------------------------------------
(* The three programs together *)

Init == InitCluster \/ InitFrame \/ InitRender

Next == NextCluster \/ NextFrame \/ NextRender

Spec == Init /\ [][Next]_vars

-----------------------------------------------------------------------------
(* What the claims speak of, stated apart from the code above *)

RECURSIVE Flatten(_)
Flatten(ss) == IF ss = <<>> THEN <<>> ELSE Head(ss) \o Flatten(Tail(ss))

\* The clusters hold each of the indices 0 .. n-1 once, and nothing else.
IsPartition(clusters, n) ==
    LET flat == Flatten(clusters)
    IN  Len(flat) = n /\ Range(flat) = 0..(n - 1)

\* The Tanimoto distance of fingerprints f[i] and f[j] (Python indices).
Distance(f, i, j) == OneMinus(TanimotoSimilarity(f[i + 1], f[j + 1]))

\* The number of other inputs within the cutoff of input i.
Neighbours(f, c, i) ==
    Cardinality({j \in 0..(Len(f) - 1) : j # i /\ FracLeq(Distance(f, i, j), c)})

ClusteringDone == prog = "cluster_fingerprints returned"

\* t spells the lower-case word w, letter case aside.
Spells(t, w) ==
    /\ Len(t) = Len(w)
    /\ \A k \in 1..Len(w) :
        \/ t[k] = w[k]
        \/ \E u \in 1..Len(Lowers) : Lowers[u] = w[k] /\ Uppers[u] = t[k]

\* The fingerprints of a frame's molecules, in row order.
RowFingerprints(d) ==
    [p \in 1..Len(d.rows) |-> GetMorganFingerprintAsBitVect(d.rows[p]["mol"])]

-----------------------------------------------------------------------------
(* Claims *)

\* C1: for every list of n fingerprints and every cutoff in (0, 1], the
\* clusters cluster_fingerprints returns are a partition of 0 .. n-1: every
\* index is in exactly one cluster, once, and no other index appears.
C1_Partition ==
    (ClusteringDone /\ cutoff[1] > 0 /\ FracLeq(cutoff, <<1, 1>>))
        => IsPartition(cs, Len(fps))

\* C1's case: several clusters, one of them with several members.
C1_Witness ==
    /\ ClusteringDone
    /\ cutoff = <<1, 2>>
    /\ Len(fps) >= 4
    /\ Len(cs) >= 2
    /\ \E k \in 1..Len(cs) : Len(cs[k]) >= 2

\* C2: after cluster_dataframe on a frame whose row labels are not 0 .. n-1 in
\* order, the row at position p holds cluster value i exactly when p is in the
\* i-th cluster of cluster_fingerprints for the rows' fingerprints in row
\* order, and no row keeps the initial -1.
C2_LabelsFollowRows ==
    prog = "cluster_dataframe returned" =>
        LET k == cluster_fingerprints(RowFingerprints(df), cutoff)
        IN  \A p \in 1..Len(df.index) :
                /\ df.rows[p]["cluster"] # -1
                /\ \A i \in 0..(Len(k) - 1) :
                    (df.rows[p]["cluster"] = i) <=> ((p - 1) \in Range(k[i + 1]))

\* C2's case: a shuffled, non-contiguous index, and rows in different clusters.
C2_Witness ==
    /\ prog = "cluster_dataframe returned"
    /\ df.index = <<5, 0, 2>>
    /\ df.rows[1]["cluster"] = 0
    /\ df.rows[2]["cluster"] = 1
    /\ df.rows[3]["cluster"] = 0

\* C3, as claimed: the clusters are returned in order of decreasing size: of
\* two consecutive clusters the earlier has at least as many members.
C3_DecreasingSize ==
    ClusteringDone =>
        \A k \in 1..(Len(cs) - 1) : Len(cs[k]) >= Len(cs[k + 1])

\* C3, amended: the clusters are returned in order of decreasing neighbour
\* count of their first index (the number of other inputs within the cutoff
\* of it), and among equal counts in order of decreasing first index; the first
\* cluster is a largest one.
C3_DecreasingNeighbourCount ==
    ClusteringDone =>
        /\ \A k \in 1..(Len(cs) - 1) :
            LET a == cs[k][1]
                b == cs[k + 1][1]
            IN  \/ Neighbours(fps, cutoff, a) > Neighbours(fps, cutoff, b)
                \/ Neighbours(fps, cutoff, a) = Neighbours(fps, cutoff, b) /\ a > b
        /\ \A k \in 1..Len(cs) : Len(cs[1]) >= Len(cs[k])

\* C3's case: a later cluster larger than an earlier one.
C3_Witness ==
    /\ ClusteringDone
    /\ \E k \in 1..(Len(cs) - 1) : Len(cs[k]) < Len(cs[k + 1])

\* C4: for every non-empty list of fingerprints, cutoff = 1 gives exactly one
\* cluster, which holds every input index.
C4_SingleCluster ==
    (ClusteringDone /\ cutoff = <<1, 1>> /\ Len(fps) >= 1) =>
        /\ Len(cs) = 1
        /\ Range(cs[1]) = 0..(Len(fps) - 1)

\* C4's case: cutoff 1 on inputs of which two share no bit (distance 1).
C4_Witness ==
    /\ ClusteringDone
    /\ cutoff = <<1, 1>>
    /\ Len(fps) >= 3
    /\ \E i, j \in 0..(Len(fps) - 1) : Distance(fps, i, j) = <<1, 1>>
    /\ Len(cs) = 1

\* C5: with cutoff = 0 two distinct indices share a cluster only if their
\* fingerprints have Tanimoto distance 0, so all clusters are singletons when
\* no two input fingerprints are identical.
C5_ZeroCutoff ==
    (ClusteringDone /\ cutoff = <<0, 1>>) =>
        /\ \A k \in 1..Len(cs) : \A a, b \in 1..Len(cs[k]) :
              a # b => Distance(fps, cs[k][a], cs[k][b])[1] = 0
        /\ (\A i, j \in 1..Len(fps) : i # j => fps[i] # fps[j])
              => \A k \in 1..Len(cs) : Len(cs[k]) = 1

\* C5's case: cutoff 0 on inputs with an identical pair and a different one.
C5_Witness ==
    /\ ClusteringDone
    /\ cutoff = <<0, 1>>
    /\ Len(fps) >= 3
    /\ \E k \in 1..Len(cs) : Len(cs[k]) = 2
    /\ \E k \in 1..Len(cs) : Len(cs[k]) = 1

\* C6, as claimed: on a frame of N valid molecules (read here as N >= 1)
\* calculate_descriptors raises the column count by the size of the
\* descriptor set and leaves every column the frame had (name and values),
\* the row index and the row order as they were.
C6_AppendsEveryDescriptor ==
    [][(prog' = "calculate_descriptors returned" /\ df.index # <<>>) =>
        /\ Len(df'.columns) = Len(df.columns) + Len(descriptors)
        /\ df'.index = df.index
        /\ \A k \in 1..Len(df.columns) :
            /\ df'.columns[k] = df.columns[k]
            /\ \A p \in 1..Len(df.index) :
                df'.rows[p][df.columns[k]] = df.rows[p][df.columns[k]]]_vars

\* C6, amended: on a frame of N >= 1 valid molecules calculate_descriptors
\* appends one column per descriptor name that is not yet a column, in the
\* descriptors' order, and fills every descriptor column, new or not, with the
\* rows' values; the columns the frame had keep their names and places, those
\* not named like a descriptor keep their values, and the row index and order
\* stay.  A frame without rows is left as it is.
C6_AppendsMissingDescriptors ==
    [][prog' = "calculate_descriptors returned" =>
        IF df.index = <<>> THEN df' = df
        ELSE
        /\ df'.columns = df.columns \o
                SelectSeq(descriptors, LAMBDA n : n \notin Range(df.columns))
        /\ df'.index = df.index
        /\ \A p \in 1..Len(df.index) :
            /\ \A c \in Range(df.columns) \ Range(descriptors) :
                    df'.rows[p][c] = df.rows[p][c]
            /\ \A k \in 1..Len(descriptors) :
                    df'.rows[p][descriptors[k]] = CalcDescriptors(df.rows[p]["mol"])[k]]_vars

\* C6's case: a frame with shuffled labels and a column of the caller's, after
\* the descriptors were added.
C6_Witness ==
    /\ prog = "calculate_descriptors returned"
    /\ df.index = <<5, 0, 2>>
    /\ df.columns = <<"id", "mol", "MolWt", "HeavyAtomCount">>
    /\ df.rows[1]["MolWt"] = 16
    /\ df.rows[2]["MolWt"] = 32

\* C7: mol_to_html with a type that spells neither png nor svg, letter case
\* aside, returns None, raises nothing, and leaves the file system as it was,
\* embed or not; every spelling of png or svg is taken as recognized (the
\* call renders: it returns a tag or raises from the rendering).
C7_UnrecognizedType ==
    [][prog' = "mol_to_html returned" =>
        IF Spells(args.type, png) \/ Spells(args.type, svg)
        THEN raised' # "" \/ (ret'.kind = "str" /\ ret'.tag = "img")
        ELSE ret' = None /\ raised' = "" /\ fs' = fs]_vars

\* C7's case: type 'bmp' in file mode, no directory made.
C7_Witness ==
    /\ prog = "mol_to_html returned"
    /\ args.type = <<"b", "m", "p">>
    /\ ~args.embed
    /\ ret = None
    /\ raised = ""
    /\ fs = [dirs |-> {}, files |-> {}]

RanMolToSvg ==
    \/ prog' \in {"mol_to_svg returned", "save_svg returned"}
    \/ prog' = "mol_to_html returned" /\ Spells(args.type, svg)

\* C8: in mol_to_svg, and so in save_svg and in mol_to_html with type svg, a
\* stale cache is refreshed before the molecule is prepared for drawing, a
\* kekulization failure is followed by exactly one retry without
\* kekulization, neither failure reaches the caller, and mol_to_svg returns the
\* text whenever the preparation without kekulization succeeds.
C8_Fallbacks ==
    [][RanMolToSvg =>
        /\ mol.stale =>
            /\ Len(calls') >= 3
            /\ calls'[2] = "UpdatePropertyCache"
            /\ \A k \in 1..2 : calls'[k] \notin
                    {"PrepareMolForDrawing(kekulize=True)", "PrepareMolForDrawing(kekulize=False)"}
        /\ ~mol.kekulizable =>
            /\ Cardinality({k \in 1..Len(calls') :
                    calls'[k] = "PrepareMolForDrawing(kekulize=False)"}) = 1
            /\ calls'[Len(calls')] = "PrepareMolForDrawing(kekulize=False)"
            /\ calls'[Len(calls') - 1] = "PrepareMolForDrawing(kekulize=True)"
        /\ raised' # "ValueError"
        /\ mol.drawable => raised' # "RuntimeError"
        /\ (mol.drawable /\ prog' = "mol_to_svg returned") =>
            /\ raised' = ""
            /\ ret'.kind = "str"
            /\ "svg:" \notin Range(ret'.text)]_vars

\* C8's case: a stale cache and a kekulization failure, and the text returned.
C8_Witness ==
    /\ prog = "mol_to_svg returned"
    /\ calls = <<"GetExplicitValence", "UpdatePropertyCache",
                 "PrepareMolForDrawing(kekulize=True)",
                 "PrepareMolForDrawing(kekulize=False)">>
    /\ raised = ""
    /\ ret.kind = "str"
    /\ "aromatic" \in Range(ret.text)

\* C9: calculate_descriptors returns the modified data frame: the frame it was
\* given, with the descriptor columns added.
C9_ReturnsFrame ==
    prog = "calculate_descriptors returned" =>
        /\ ret.kind = "DataFrame"
        /\ ret.value = df

\* C10: in every returned cluster the first index is the centroid: every other
\* member is within the cutoff of it, by the Tanimoto distance of the two
\* original fingerprints.
C10_WithinCutoffOfFirst ==
    ClusteringDone =>
        \A k \in 1..Len(cs) : \A m \in 2..Len(cs[k]) :
            FracLeq(Distance(fps, cs[k][m], cs[k][1]), cutoff)

\* C10's case: a cluster of three or more beside another cluster, at a cutoff
\* strictly between 0 and 1, with inputs that are not all alike.
C10_Witness ==
    /\ ClusteringDone
    /\ cutoff = <<1, 2>>
    /\ Len(cs) >= 2
    /\ \E k \in 1..Len(cs) :
        /\ Len(cs[k]) >= 3
        /\ \E m \in 2..Len(cs[k]) : fps[cs[k][m] + 1] # fps[cs[k][1] + 1]

=============================================================================
